---- MODULE Spec2Model ----
(***************************************************************************)
(* Model of the quantum_time_travel planning core: the FSM container       *)
(* (fsm.py), the Bellman-Ford engine (graph.py), the A->B->C->A cycle      *)
(* planner (planner.py), the cost aggregator and the specification loader  *)
(* (spec.py) and the POST /api/plan handler (api.py).  Edge weights are    *)
(* floats of a small format: the small integers sum exactly, the large     *)
(* ones round and overflow.  The aggregator computes on exact rationals.   *)
(***************************************************************************)
EXTENDS Integers, Sequences, FiniteSets, TLC

\* ------------------------------------------------------------------ bounds
\* Number of transitions the FSM may hold (overwriting a stored transition is
\* always possible).
MaxEdges == 3
\* Number of attributes a transition may carry.
MaxAttrs == 3

\* fsm.states, as given to FSM.__init__ (test_planner.py: FSM(["A","B","C"], ...)).
States == {"A", "B", "C"}
\* A label that is not a registered state.
Unregistered == "X"
\* Python's None: the default event, and the end of a predecessor chain.
None == "None"
\* The weights add_transition is called with.
Weights == {-2, 0, 1}
\* The two POST /api/plan requests in flight.
Requests == {"r1", "r2"}

\* ------------------------------------------------------------------ state
VARIABLES
    edges,   \* FSM._edges: the buckets in insertion order, each with its
             \* destinations in insertion order
    last,    \* history: key <<src, event, dst>> -> weight of the most recent
             \* successful add_transition call for it, for the keys ever written
    ret,     \* the last call and what it returned or raised
    attributes,  \* the attributes dictionary of the transition aggregated
    file,    \* the content of /tmp/_spec.json
    req      \* the POST /api/plan requests: where each is in api_plan, its
             \* payload, what it read and what it answered

vars == <<edges, last, ret, attributes, file, req>>

\* ------------------------------------------------------------- fsm.py
\* Index of the bucket keyed (src, event) in es, 0 when there is none.
BucketIndex(es, src, event) ==
    IF \E i \in 1..Len(es) : es[i].src = src /\ es[i].event = event
    THEN CHOOSE i \in 1..Len(es) : es[i].src = src /\ es[i].event = event
    ELSE 0

\* Index of dst in a bucket's destination list, 0 when absent.
DstIndex(dsts, dst) ==
    IF \E j \in 1..Len(dsts) : dsts[j].dst = dst
    THEN CHOOSE j \in 1..Len(dsts) : dsts[j].dst = dst
    ELSE 0

\* Mutant: a re-added destination accumulates the weights.
BucketSetAccumulate(dsts, dst, weight) ==
    LET j == DstIndex(dsts, dst) IN
    IF j = 0 THEN Append(dsts, [dst |-> dst, w |-> weight])
    ELSE [dsts EXCEPT ![j] = [dst |-> dst, w |-> dsts[j].w + weight]]

\* bucket[dst] = float(weight): overwrite in place, or insert at the end.
BucketSet(dsts, dst, weight) ==
    LET j == DstIndex(dsts, dst) IN
    IF j = 0 THEN Append(dsts, [dst |-> dst, w |-> weight])
    ELSE [dsts EXCEPT ![j] = [dst |-> dst, w |-> weight]]

\* self._edges.setdefault(key, {}) followed by bucket[dst] = float(weight).
SetDefaultAndStore(es, src, dst, event, weight) ==
    LET i == BucketIndex(es, src, event) IN
    IF i = 0
    THEN Append(es, [src |-> src, event |-> event,
                     dsts |-> BucketSet(<<>>, dst, weight)])
    ELSE [es EXCEPT ![i].dsts = BucketSet(es[i].dsts, dst, weight)]

\* Mutant: only the source is checked.
AddRaisesSrcOnly(src, dst) == src \notin States

\* The guard of FSM.add_transition: raise ValueError.
AddRaises(src, dst) == src \notin States \/ dst \notin States

\* FSM.add_transition as a function of the bucket list.
add_transition(es, src, dst, event, weight) ==
    IF AddRaises(src, dst) THEN es
    ELSE SetDefaultAndStore(es, src, dst, event, weight)

RECURSIVE FlattenBucket(_, _)
FlattenBucket(b, j) ==
    IF j > Len(b.dsts) THEN <<>>
    ELSE <<[src |-> b.src, event |-> b.event,
            dst |-> b.dsts[j].dst, weight |-> b.dsts[j].w]>>
         \o FlattenBucket(b, j + 1)

RECURSIVE FlattenFrom(_, _)
FlattenFrom(es, i) ==
    IF i > Len(es) THEN <<>>
    ELSE FlattenBucket(es[i], 1) \o FlattenFrom(es, i + 1)

\* FSM.transitions(): every Transition, bucket by bucket.
transitions(es) == FlattenFrom(es, 1)

\* ------------------------------------------------------------- graph.py
\* Distances and costs are floats: a finite number, float("inf"),
\* float("-inf") or nan.
Inf == [fin |-> FALSE, val |-> 1]
NegInf == [fin |-> FALSE, val |-> -1]
NaN == [fin |-> FALSE, val |-> 0]
Fin(n) == [fin |-> TRUE, val |-> n]

\* A float keeps a fixed number of significant digits and has a largest
\* finite value: every sum is rounded to the nearest float, ties to even,
\* and overflows to an infinity beyond the largest.  The model's floats keep
\* two decimal digits and end at 9900: the integers below 100 in magnitude
\* are exact, as the integers below 2^53 are in a double; 5000 + (-1) is
\* 5000, as 1e17 + (-0.5) is 1e17; 5000 + 5000 is inf, as 1e308 + 1e308 is.
RECURSIVE Ulp(_)
Ulp(a) == IF a < 100 THEN 1 ELSE 10 * Ulp(a \div 10)
\* a rounded to a multiple of u, to the nearest, ties to the even multiple.
RoundTo(a, u) ==
    IF 2 * (a % u) > u \/ (2 * (a % u) = u /\ (a \div u) % 2 = 1)
    THEN (a \div u + 1) * u
    ELSE (a \div u) * u
RoundMagnitude(a) == RoundTo(a, Ulp(a))
Round(x) == (IF x < 0 THEN -1 ELSE 1) * RoundMagnitude(IF x < 0 THEN 0 - x ELSE x)
\* The float of the rounded sum r: an infinity beyond the largest float.
Overflow(r) == IF r > 9900 THEN Inf ELSE IF r < -9900 THEN NegInf ELSE Fin(r)
Float(x) == Overflow(Round(x))

\* a + b on floats.
Add(a, b) ==
    IF a.fin /\ b.fin THEN Float(a.val + b.val)
    ELSE IF a = NaN \/ b = NaN THEN NaN
    ELSE IF a.fin THEN b
    ELSE IF b.fin THEN a
    ELSE IF a = b THEN a ELSE NaN

\* d + w for a distance d and a finite weight w.
Plus(d, w) == Add(d, Fin(w))
\* a + b for two costs.
PlusDist(a, b) == Add(a, b)
\* a < b on floats (false when either is nan).
Less(a, b) ==
    IF a = NaN \/ b = NaN THEN FALSE
    ELSE IF a.fin /\ b.fin THEN a.val < b.val
    ELSE IF a.fin THEN b = Inf
    ELSE IF b.fin THEN a = NegInf
    ELSE a = NegInf /\ b = Inf

\* Mutant: the relaxation test of bellman_ford with <= for <.
RelaxesOrEqual(dist, e) ==
    LET a == Plus(dist[e.u], e.w) IN Less(a, dist[e.v]) \/ (a.fin /\ a = dist[e.v])

\* The relaxation test of bellman_ford: dist[e.u] + e.w < dist[e.v].
Relaxes(dist, e) == Less(Plus(dist[e.u], e.w), dist[e.v])

\* One pass of "for e in edges_list" in bellman_ford, from edge i on.
RECURSIVE RelaxPass(_, _, _)
RelaxPass(E, i, st) ==
    IF i > Len(E) THEN st
    ELSE LET e == E[i] IN
         IF Relaxes(st.dist, e)
         THEN RelaxPass(E, i + 1,
                        [dist |-> [st.dist EXCEPT ![e.v] = Plus(st.dist[e.u], e.w)],
                         pred |-> [st.pred EXCEPT ![e.v] = e.u],
                         changed |-> TRUE])
         ELSE RelaxPass(E, i + 1, st)

\* Mutant: one pass too few (range(len(nodes_list) - 2)).
RECURSIVE RelaxLoopOneShort(_, _, _)
RelaxLoopOneShort(E, k, st) ==
    IF k <= 1 THEN st
    ELSE LET s2 == RelaxPass(E, 1, [st EXCEPT !.changed = FALSE]) IN
         IF ~s2.changed THEN s2 ELSE RelaxLoopOneShort(E, k - 1, s2)

\* Mutant: the break taken after the first pass whether or not it changed a
\* distance.
RelaxLoopBreakAlways(E, k, st) ==
    IF k <= 0 THEN st ELSE RelaxPass(E, 1, [st EXCEPT !.changed = FALSE])

\* "for _ in range(len(nodes_list) - 1)" with the early exit on no change.
RECURSIVE RelaxLoop(_, _, _)
RelaxLoop(E, k, st) ==
    IF k <= 0 THEN st
    ELSE LET s2 == RelaxPass(E, 1, [st EXCEPT !.changed = FALSE]) IN
         IF ~s2.changed THEN s2 ELSE RelaxLoop(E, k - 1, s2)

\* The last loop of bellman_ford: does any edge still relax?
StillRelaxes(E, dist) == \E i \in 1..Len(E) : Relaxes(dist, E[i])

\* dist and pred before the first pass: 0 at the source, inf elsewhere.
bellman_ford_init(nodes, source) ==
    [dist |-> [n \in nodes |-> IF n = source THEN Fin(0) ELSE Inf],
     pred |-> [n \in nodes |-> None],
     changed |-> FALSE]

\* "return dist, pred, False / True" after the negative cycle check on the
\* relaxed state st.
bellman_ford_return(E, st) ==
    [dist |-> st.dist, pred |-> st.pred, neg |-> StillRelaxes(E, st.dist)]

\* bellman_ford(nodes, edges, source) -> (dist, pred, has_negative_cycle).
bellman_ford(nodes, E, source) ==
    bellman_ford_return(E, RelaxLoop(E, Cardinality(nodes) - 1, bellman_ford_init(nodes, source)))

\* super_source = object(): a node distinct from every state.
SuperSource == "<super_source>"

RECURSIVE SetToSeq(_)
SetToSeq(S) ==
    IF S = {} THEN <<>>
    ELSE LET x == CHOOSE y \in S : TRUE IN <<x>> \o SetToSeq(S \ {x})

\* [Edge(super_source, n, 0.0) for n in nodes_list]
SuperEdges(nodes) ==
    LET ns == SetToSeq(nodes) IN
    [i \in 1..Len(ns) |-> [u |-> SuperSource, v |-> ns[i], w |-> 0]]

\* dist.get(n, float("inf")) in detect_any_negative_cycle.
DistGet(dist, n) == IF n \in DOMAIN dist THEN dist[n] ELSE Inf

\* Mutant: the relaxation test of the detector with <= for <.
RelaxesGetOrEqual(dist, e) ==
    LET a == Plus(DistGet(dist, e.u), e.w)
        b == DistGet(dist, e.v)
    IN Less(a, b) \/ (a.fin /\ a = b)

\* dist.get(e.u, inf) + e.w < dist.get(e.v, inf)
RelaxesGet(dist, e) == Less(Plus(DistGet(dist, e.u), e.w), DistGet(dist, e.v))

RECURSIVE DetectPass(_, _, _)
DetectPass(E, i, dist) ==
    IF i > Len(E) THEN dist
    ELSE LET e == E[i] IN
         IF RelaxesGet(dist, e)
         THEN DetectPass(E, i + 1,
                         [dist EXCEPT ![e.v] = Plus(DistGet(dist, e.u), e.w)])
         ELSE DetectPass(E, i + 1, dist)

\* "Relax |V|-1 times": no early exit here.
RECURSIVE DetectLoop(_, _, _)
DetectLoop(E, k, dist) ==
    IF k <= 0 THEN dist ELSE DetectLoop(E, k - 1, DetectPass(E, 1, dist))

\* Mutant: the check run as Bellman-Ford from one state instead of from a
\* super-source, which misses the cycles that state cannot reach.
detect_from_one_source(nodes, E) ==
    bellman_ford(nodes, E, CHOOSE n \in nodes : TRUE).neg

\* detect_any_negative_cycle(nodes, edges).
detect_any_negative_cycle(nodes, E) ==
    LET edges_list == E \o SuperEdges(nodes)
        dist == DetectLoop(edges_list, Cardinality(nodes) - 1,
                           [n \in nodes |-> Fin(0)])
    IN \E i \in 1..Len(edges_list) : RelaxesGet(dist, edges_list[i])

\* ------------------------------------------------------------- planner.py
\* Mutant: the last transition left out of the edge list.
edges_but_last(es) ==
    LET ts == transitions(es) IN
    [i \in 1..(Len(ts) - 1) |->
        [u |-> ts[i].src, v |-> ts[i].dst, w |-> ts[i].weight]]

\* _edges_from_fsm: [Edge(t.src, t.dst, t.weight) for t in fsm.transitions()].
edges_from_fsm(es) ==
    LET ts == transitions(es) IN
    [i \in 1..Len(ts) |-> [u |-> ts[i].src, v |-> ts[i].dst, w |-> ts[i].weight]]

\* Mutant: zero-weight edges dropped with the negative ones.
Positive(e) == e.w > 0

\* [e for e in edges if e.w >= 0]
NonNegative(e) == e.w >= 0
FilterNegative(E) == SelectSeq(E, NonNegative)

\* Mutant: path.reverse() forgotten.
NoReverse(s) == s

\* path.reverse()
Reverse(s) == [i \in 1..Len(s) |-> s[Len(s) + 1 - i]]

\* The "while cur is not None" loop of _shortest_path; path is built from
\* dst backwards.
RECURSIVE Reconstruct(_, _, _, _)
Reconstruct(pred, cur, visited, path) ==
    IF cur = None THEN [cycle |-> FALSE, path |-> path]
    ELSE IF cur \in visited THEN [cycle |-> TRUE, path |-> path]
    ELSE Reconstruct(pred, pred[cur], visited \cup {cur}, Append(path, cur))

\* (path, cost, reason) with the empty path and the cost inf.
Failed(why) == [path |-> <<>>, cost |-> Inf, reason |-> why]

\* The part of _shortest_path after its reconstruction loop returned rc.
walk_back(rc, cost, src) ==
    IF rc.cycle THEN Failed("path reconstruction cycle detected")
    ELSE IF Reverse(rc.path) # <<>> /\ Reverse(rc.path)[1] # src
    THEN Failed("path reconstruction failed")
    ELSE [path |-> Reverse(rc.path), cost |-> cost, reason |-> ""]

\* The part of _shortest_path after its bellman_ford call returned bf.
path_from(bf, src, dst) ==
    IF bf.neg THEN Failed("negative cycle detected")
    ELSE IF DistGet(bf.dist, dst) = Inf THEN Failed("unreachable")
    ELSE walk_back(Reconstruct(bf.pred, dst, {}, <<>>), bf.dist[dst], src)

\* _shortest_path(nodes, edges, src, dst) -> (path, cost, reason).
shortest_path(nodes, E, src, dst) ==
    path_from(bellman_ford(nodes, E, src), src, dst)

\* Mutant: C left out of the guard.
WaypointMissingAB(A, B, C) == A \notin States \/ B \notin States

\* "A not in fsm.states or B not in fsm.states or C not in fsm.states".
WaypointMissing(A, B, C) == A \notin States \/ B \notin States \/ C \notin States

\* Mutant: the legs joined whole, their shared end nodes repeated.
StitchWhole(p1, p2, p3) == p1 \o p2 \o p3

\* path = p1 + p2[1:] + p3[1:]
Stitch(p1, p2, p3) == p1 \o Tail(p2) \o Tail(p3)

\* Mutant: the third leg's cost left out of the total.
TotalCostTwoLegs(c1, c2, c3) == PlusDist(c1, c2)

\* total_cost = c1 + c2 + c3
TotalCost(c1, c2, c3) == PlusDist(PlusDist(c1, c2), c3)

\* One _shortest_path call of plan_cycle_ABC, with the leg it serves.
Leg(name, nodes, E, src, dst) ==
    LET r == shortest_path(nodes, E, src, dst) IN
    [leg |-> name, src |-> src, dst |-> dst,
     path |-> r.path, cost |-> r.cost, reason |-> r.reason]

\* PlanResult(path, cost, ok, reason), with the history of the call: whether
\* the negative-cycle check ran, and the legs queried, in order.
Result(path, cost, ok, reason, checked, legs) ==
    [path |-> path, cost |-> cost, ok |-> ok, reason |-> reason,
     checked |-> checked, legs |-> legs]

\* Mutant: a failed leg returned with the path and the cost of the legs
\* before it.
LegFailedKeepsLegs(legs) ==
    LET l == legs[Len(legs)] IN
    Result(IF Len(legs) > 1 THEN legs[1].path ELSE <<>>,
           IF Len(legs) > 1 THEN legs[1].cost ELSE Inf,
           FALSE, l.leg \o " planning failed: " \o l.reason, TRUE, legs)

\* Mutant: every failure reported under the first leg's name.
LegFailedFirstName(legs) ==
    LET l == legs[Len(legs)] IN
    Result(<<>>, Inf, FALSE, legs[1].leg \o " planning failed: " \o l.reason,
           TRUE, legs)

\* The return taken when the last leg queried has no path:
\* PlanResult([], inf, False, f"<leg> planning failed: {r}").
LegFailed(legs) ==
    LET l == legs[Len(legs)] IN
    Result(<<>>, Inf, FALSE, l.leg \o " planning failed: " \o l.reason, TRUE, legs)

\* The edge list plan_cycle_ABC plans over: every transition of the FSM,
\* less the negative ones when forbid_negative_edges is set.
planning_edges(es, forbid_negative_edges) ==
    IF forbid_negative_edges THEN FilterNegative(edges_from_fsm(es))
    ELSE edges_from_fsm(es)

\* plan_cycle_ABC(fsm, A, B, C, forbid_negative_edges).
plan_cycle_ABC(es, A, B, C, forbid_negative_edges) ==
    IF WaypointMissing(A, B, C)
    THEN Result(<<>>, Inf, FALSE, "A/B/C not in FSM states", FALSE, <<>>)
    ELSE
    LET nodes == States
        E == planning_edges(es, forbid_negative_edges)
    IN
    IF detect_any_negative_cycle(nodes, E)
    THEN Result(<<>>, Inf, FALSE, "negative cycle exists in graph", TRUE, <<>>)
    ELSE
    LET l1 == Leg("A->B", nodes, E, A, B) IN
    IF l1.path = <<>> THEN LegFailed(<<l1>>)
    ELSE
    LET l2 == Leg("B->C", nodes, E, B, C) IN
    IF l2.path = <<>> THEN LegFailed(<<l1, l2>>)
    ELSE
    LET l3 == Leg("C->A", nodes, E, C, A) IN
    IF l3.path = <<>> THEN LegFailed(<<l1, l2, l3>>)
    ELSE Result(Stitch(l1.path, l2.path, l3.path),
                TotalCost(l1.cost, l2.cost, l3.cost),
                TRUE, "ok", TRUE, <<l1, l2, l3>>)

\* ---------------------------------------------------------------- spec.py
\* The aggregator computes on floats far apart in size (1e-12, 0.999999,
\* 299792458.0, 1e9).  They are modelled as exact rationals n/d over integers
\* of any size; math.sqrt and math.log are modelled to six decimal places.
\* A natural number is the sequence of its base-10000 digits, lowest first.
RECURSIVE NatOf(_)
NatOf(n) == IF n = 0 THEN <<>> ELSE <<n % 10000>> \o NatOf(n \div 10000)

RECURSIVE Strip(_)
Strip(a) ==
    IF a = <<>> THEN a
    ELSE IF a[Len(a)] = 0 THEN Strip(SubSeq(a, 1, Len(a) - 1)) ELSE a

RECURSIVE NAddCarry(_, _, _)
NAddCarry(a, b, c) ==
    IF a = <<>> /\ b = <<>> THEN (IF c = 0 THEN <<>> ELSE <<c>>)
    ELSE LET x == (IF a = <<>> THEN 0 ELSE a[1]) + (IF b = <<>> THEN 0 ELSE b[1]) + c
         IN <<x % 10000>> \o NAddCarry(IF a = <<>> THEN a ELSE Tail(a),
                                       IF b = <<>> THEN b ELSE Tail(b),
                                       x \div 10000)
NAdd(a, b) == NAddCarry(a, b, 0)

\* a - b for a >= b.
RECURSIVE NSubBorrow(_, _, _)
NSubBorrow(a, b, c) ==
    IF a = <<>> THEN <<>>
    ELSE LET x == a[1] - (IF b = <<>> THEN 0 ELSE b[1]) - c
         IN <<(x + 10000) % 10000>> \o NSubBorrow(Tail(a),
                                                  IF b = <<>> THEN b ELSE Tail(b),
                                                  IF x < 0 THEN 1 ELSE 0)
NSub(a, b) == Strip(NSubBorrow(a, b, 0))

\* -1, 0 or 1 as a is below, equal to or above b.
RECURSIVE NCmpFrom(_, _, _)
NCmpFrom(a, b, i) ==
    IF i = 0 THEN 0
    ELSE IF a[i] < b[i] THEN -1
    ELSE IF a[i] > b[i] THEN 1
    ELSE NCmpFrom(a, b, i - 1)
NCmp(a, b) ==
    IF Len(a) < Len(b) THEN -1
    ELSE IF Len(a) > Len(b) THEN 1
    ELSE NCmpFrom(a, b, Len(a))

RECURSIVE NMulDigit(_, _, _)
NMulDigit(a, m, c) ==
    IF a = <<>> THEN (IF c = 0 THEN <<>> ELSE <<c>>)
    ELSE LET x == a[1] * m + c
         IN <<x % 10000>> \o NMulDigit(Tail(a), m, x \div 10000)

RECURSIVE NMul(_, _)
NMul(a, b) ==
    IF a = <<>> \/ b = <<>> THEN <<>>
    ELSE LET rest == NMul(a, Tail(b)) IN
         NAdd(NMulDigit(a, b[1], 0), IF rest = <<>> THEN rest ELSE <<0>> \o rest)

\* An integer is a sign and a magnitude.
Z(neg, mag) == [neg |-> neg /\ mag # <<>>, mag |-> mag]
ZOf(n) == IF n < 0 THEN Z(TRUE, NatOf(0 - n)) ELSE Z(FALSE, NatOf(n))
ZAdd(a, b) ==
    IF a.neg = b.neg THEN Z(a.neg, NAdd(a.mag, b.mag))
    ELSE IF NCmp(a.mag, b.mag) >= 0 THEN Z(a.neg, NSub(a.mag, b.mag))
    ELSE Z(b.neg, NSub(b.mag, a.mag))
ZMul(a, b) == Z(a.neg # b.neg, NMul(a.mag, b.mag))

\* A float is a rational n/d with d > 0; R(n, d) is the literal n/d.
R(n, d) == [n |-> ZOf(n), d |-> NatOf(d)]
RNeg(a) == [n |-> Z(~a.n.neg, a.n.mag), d |-> a.d]
RAdd(a, b) ==
    [n |-> ZAdd(ZMul(a.n, Z(FALSE, b.d)), ZMul(b.n, Z(FALSE, a.d))),
     d |-> NMul(a.d, b.d)]
RSub(a, b) == RAdd(a, RNeg(b))
RMul(a, b) == [n |-> ZMul(a.n, b.n), d |-> NMul(a.d, b.d)]
\* a / b for b # 0.
RDiv(a, b) ==
    [n |-> Z(a.n.neg # b.n.neg, NMul(a.n.mag, b.d)), d |-> NMul(a.d, b.n.mag)]
\* -1, 0 or 1 as a is negative, zero or positive.
RSign(a) == IF a.n.mag = <<>> THEN 0 ELSE IF a.n.neg THEN -1 ELSE 1
RLess(a, b) == RSign(RSub(a, b)) < 0
RLeq(a, b) == RSign(RSub(a, b)) <= 0
REq(a, b) == RSign(RSub(a, b)) = 0
RMax(a, b) == IF RLess(a, b) THEN b ELSE a
RMin(a, b) == IF RLess(b, a) THEN b ELSE a

\* math.sqrt(x) for 0 <= x <= 1, rounded down to six decimal places: the
\* largest s/10^6 whose square is at most x.
RECURSIVE SqrtSearch(_, _, _)
SqrtSearch(x, lo, hi) ==
    IF lo = hi THEN lo
    ELSE LET mid == (lo + hi + 1) \div 2
             m == R(mid, 1000000)
         IN IF RLeq(RMul(m, m), x) THEN SqrtSearch(x, mid, hi)
            ELSE SqrtSearch(x, lo, mid - 1)
Sqrt(x) == R(SqrtSearch(x, 0, 1000000), 1000000)

\* math.log(x) to six decimal places, for the arguments the risk penalty
\* takes on the inputs of the model.
Log(x) ==
    CASE REq(x, R(1, 1)) -> R(0, 1)
      [] REq(x, R(4, 5)) -> R(-223144, 1000000)
      [] REq(x, R(1, 2)) -> R(-693147, 1000000)
      [] REq(x, R(1, 1000000)) -> R(-13815511, 1000000)


Zero == R(0, 1)
One == R(1, 1)
\* C_M_PER_S = 299_792_458.0
C_M_PER_S == R(299792458, 1)

\* AggregationPolicy() with its default field values.
AggregationPolicy ==
    [energy_weight |-> R(1, 1),
     earth_time_weight |-> R(1, 10),
     crew_time_weight |-> R(2, 10),
     risk_weight |-> R(2, 1),
     allow_negative_edges |-> TRUE,
     strict_invariants |-> TRUE,
     energy_scale |-> R(1000000000, 1),
     infer_velocity_from_distance_and_duration |-> TRUE,
     mode |-> None]

\* raise ValueError(msg)
Raise(msg) == [raised |-> TRUE, error |-> msg]

\* attrs.get(k, default)
Get(attrs, k, default) == IF k \in DOMAIN attrs THEN attrs[k] ELSE default

\* _gamma(beta): raises outside [0,1), else 1 / sqrt(1 - beta * beta).
gamma(beta) ==
    IF RLess(beta, Zero) \/ RLeq(One, beta)
    THEN Raise("velocity_fraction_c must be in [0,1)")
    ELSE [raised |-> FALSE, g |-> RDiv(One, Sqrt(RSub(One, RMul(beta, beta))))]

\* duration_s: the attribute if present, else derived from the two epochs if
\* both are present, else 0.
resolve_duration(attrs) ==
    IF "duration_s" \in DOMAIN attrs THEN attrs["duration_s"]
    ELSE IF /\ "earth_departure_epoch_s" \in DOMAIN attrs
            /\ "earth_arrival_epoch_s" \in DOMAIN attrs
    THEN RMax(Zero, RSub(attrs["earth_arrival_epoch_s"],
                         attrs["earth_departure_epoch_s"]))
    ELSE Zero

\* duration_s + 1e-9 < distance_m / (beta * C_M_PER_S)
below_kinematic_bound(distance_m, duration_s, beta) ==
    LET v == RMul(beta, C_M_PER_S)
        min_time == RDiv(distance_m, v)
    IN RLess(RAdd(duration_s, R(1, 1000000000)), min_time)

\* Mutant: the lower bound of the velocity left unchecked.
beta_below_one(beta) == RLess(beta, One)

\* 0.0 <= beta < 1.0
beta_in_range(beta) == RLeq(Zero, beta) /\ RLess(beta, One)

\* Mutant: the cost floored at zero whatever the policy says.
floor_always(cost, policy) == RMax(Zero, cost)

\* "if not policy.allow_negative_edges: cost = max(0.0, cost)"
floor_cost(cost, policy) ==
    IF ~policy.allow_negative_edges THEN RMax(Zero, cost) ELSE cost

\* Mutant: the strict kinematic check made against the speed of light.
strict_kinematic_at_c(attrs, distance_m, duration_s) ==
    /\ RLess(Zero, distance_m) /\ RLess(Zero, duration_s)
    /\ "velocity_fraction_c" \in DOMAIN attrs
    /\ RLess(Zero, attrs["velocity_fraction_c"])
    /\ below_kinematic_bound(distance_m, duration_s, One)

\* The strict kinematic check: made only for an explicit beta > 0.
strict_kinematic(attrs, distance_m, duration_s) ==
    /\ RLess(Zero, distance_m) /\ RLess(Zero, duration_s)
    /\ "velocity_fraction_c" \in DOMAIN attrs
    /\ RLess(Zero, attrs["velocity_fraction_c"])
    /\ LET v == RMul(attrs["velocity_fraction_c"], C_M_PER_S) IN
       /\ RLess(Zero, v)
       /\ below_kinematic_bound(distance_m, duration_s, attrs["velocity_fraction_c"])

\* beta after "Infer beta if requested and possible" and float(beta or 0.0).
resolve_beta(attrs, policy, distance_m, duration_s) ==
    IF "velocity_fraction_c" \in DOMAIN attrs THEN attrs["velocity_fraction_c"]
    ELSE IF /\ policy.infer_velocity_from_distance_and_duration
            /\ RLess(Zero, distance_m) /\ RLess(Zero, duration_s)
    THEN LET v == RDiv(distance_m, duration_s) IN
         RMax(Zero, RMin(RDiv(v, C_M_PER_S), R(999999, 1000000)))
    ELSE Zero

\* The warnings list, in the order the code appends.
warnings_of(distance_m, duration_s, beta, risk_prob, crew_time_s) ==
    (IF /\ RLess(Zero, distance_m) /\ RLess(Zero, duration_s) /\ RLess(Zero, beta)
        /\ below_kinematic_bound(distance_m, duration_s, beta)
     THEN <<"duration below kinematic bound distance/velocity">> ELSE <<>>)
    \o (IF RLeq(R(9, 10), beta)
        THEN <<"high relativistic speed (beta>=0.9)">> ELSE <<>>)
    \o (IF /\ RLess(Zero, distance_m) /\ RLess(Zero, duration_s)
           /\ RLess(C_M_PER_S, RDiv(distance_m, duration_s))
        THEN <<"implied superluminal average speed from distance/duration">>
        ELSE <<>>)
    \o (IF RLeq(R(2, 10), risk_prob)
        THEN <<"high mission risk (risk_prob>=0.2)">> ELSE <<>>)
    \o (IF RLess(RAdd(duration_s, R(1, 1000000000)), crew_time_s)
        THEN <<"crew_time exceeds earth-frame duration (unexpected)">>
        ELSE <<>>)

\* The part of aggregate_cost_with_breakdown after the invariants: the time
\* terms, the risk penalty, the effective weights, the cost, the warnings
\* and the breakdown.
cost_and_breakdown(attrs, policy, energy_j, distance_m, duration_s, risk_prob, credits, beta, g) ==
    LET crew_time_s ==
            IF "crew_time_s" \in DOMAIN attrs THEN attrs["crew_time_s"]
            ELSE IF RLess(Zero, duration_s) THEN RDiv(duration_s, g) ELSE Zero
        risk_penalty ==
            RNeg(Log(RMax(RDiv(R(1, 1000000), R(1000000, 1)), RSub(One,
                     RMin(RMax(risk_prob, Zero), R(999999, 1000000))))))
        real_world == policy.mode = "real_world"
        days == IF RLess(Zero, duration_s) THEN RDiv(duration_s, R(86400, 1))
                ELSE Zero
        e_w == policy.energy_weight
        et_w == IF real_world
                THEN RMul(policy.earth_time_weight,
                          RAdd(One, RMul(RMin(days, R(10, 1)), R(5, 100))))
                ELSE policy.earth_time_weight
        ct_w == IF real_world
                THEN RMul(policy.crew_time_weight,
                          RAdd(One, RMul(RMin(days, R(10, 1)), R(2, 100))))
                ELSE policy.crew_time_weight
        r_w == IF real_world
               THEN RMul(policy.risk_weight,
                         RAdd(One, RMul(RMin(RMax(risk_prob, Zero), R(99, 100)),
                                        R(2, 1))))
               ELSE policy.risk_weight
        energy_term == RDiv(energy_j, RMax(One, policy.energy_scale))
        time_term == RAdd(RMul(et_w, duration_s), RMul(ct_w, crew_time_s))
        risk_term == RMul(r_w, risk_penalty)
        cost == RSub(RAdd(RAdd(RMul(policy.energy_weight, energy_term),
                               time_term), risk_term), credits)
    IN [raised |-> FALSE,
        cost |-> floor_cost(cost, policy),
        energy_j |-> energy_j,
        distance_m |-> distance_m,
        velocity_fraction_c |-> beta,
        gamma |-> g,
        duration_s |-> duration_s,
        crew_time_s |-> crew_time_s,
        risk_prob |-> risk_prob,
        risk_penalty |-> risk_penalty,
        credits |-> credits,
        effective_weights |->
            [energy |-> e_w, earth_time |-> et_w, crew_time |-> ct_w, risk |-> r_w],
        terms |-> [energy_term |-> energy_term, time_term |-> time_term,
                   risk_term |-> risk_term],
        warnings |-> warnings_of(distance_m, duration_s, beta, risk_prob,
                                 crew_time_s)]

\* aggregate_cost_with_breakdown(attrs, policy): the cost and the breakdown,
\* or the ValueError raised.
aggregate_cost_with_breakdown(attrs, policy) ==
    LET energy_j == Get(attrs, "energy_j", Zero)
        distance_m == Get(attrs, "distance_m", Zero)
        mass_kg == Get(attrs, "mass_kg", Zero)
        risk_prob == Get(attrs, "risk_prob", Zero)
        duration_s == resolve_duration(attrs)
        credits == Get(attrs, "credits", Zero)
        strict == policy.strict_invariants
    IN
    IF strict /\ (\/ RLess(energy_j, Zero) \/ RLess(distance_m, Zero)
                  \/ RLess(mass_kg, Zero) \/ RLess(duration_s, Zero))
    THEN Raise("energy_j, distance_m, mass_kg, duration_s must be >= 0")
    ELSE IF strict /\ ~(RLeq(Zero, risk_prob) /\ RLess(risk_prob, One))
    THEN Raise("risk_prob must be in [0,1)")
    ELSE IF strict /\ strict_kinematic(attrs, distance_m, duration_s)
    THEN Raise("duration_s violates kinematic lower bound distance/velocity")
    ELSE
    LET beta == resolve_beta(attrs, policy, distance_m, duration_s) IN
    IF strict /\ ~beta_in_range(beta)
    THEN Raise("velocity_fraction_c must be in [0,1)")
    ELSE
    LET gm == IF RLess(Zero, beta) THEN gamma(beta)
              ELSE [raised |-> FALSE, g |-> One]
    IN IF gm.raised THEN gm
       ELSE cost_and_breakdown(attrs, policy, energy_j, distance_m, duration_s,
                               risk_prob, credits, beta, gm.g)

\* aggregate_cost(attrs, policy): the cost alone.
aggregate_cost(attrs, policy) ==
    LET r == aggregate_cost_with_breakdown(attrs, policy) IN
    IF r.raised THEN r ELSE [raised |-> FALSE, cost |-> r.cost]

\* The elements of the sequence s.
Range(s) == {s[i] : i \in DOMAIN s}

\* float(cost) as a weight of the planner, for a cost that is a whole number
\* (the specifications loaded here cost whole numbers per transition).
weight_of(r) == CHOOSE w \in -20..20 : REq(r, R(w, 1))

\* The AggregationPolicy load_spec reads from data["policy"].
policy_of(data) ==
    [AggregationPolicy EXCEPT
        !.allow_negative_edges = Get(data.policy, "allow_negative_edges", TRUE),
        !.strict_invariants = Get(data.policy, "strict_invariants", TRUE)]

\* The loop "for t in transitions" of load_spec from transition i on, on the
\* FSM es.
RECURSIVE load_transitions(_, _, _, _)
RECURSIVE load_weighted(_, _, _, _, _)
load_transitions(ts, i, es, policy) ==
    IF i > Len(ts) THEN [raised |-> FALSE, fsm |-> es]
    ELSE IF ts[i].src \notin States \/ ts[i].dst \notin States
    THEN Raise("transition src/dst must be in states")
    ELSE load_weighted(ts, i, es, policy, aggregate_cost(ts[i].attributes, policy))

\* The rest of that loop once aggregate_cost returned or raised w.
load_weighted(ts, i, es, policy, w) ==
    IF w.raised THEN w
    ELSE load_transitions(ts, i + 1,
                          add_transition(es, ts[i].src, ts[i].dst, None,
                                         weight_of(w.cost)),
                          policy)

\* The return of load_spec once its loop built or raised ld.
loaded(data, ld) ==
    IF ld.raised THEN ld
    ELSE [raised |-> FALSE, fsm |-> ld.fsm, A |-> data.ABC[1], B |-> data.ABC[2],
          C |-> data.ABC[3], policy |-> policy_of(data)]

\* load_spec on the parsed JSON data -> (fsm, A, B, C, policy).
load_spec(data) ==
    IF data.states = <<>> THEN Raise("states must be a non-empty list")
    ELSE IF data.initial \notin Range(data.states)
    THEN Raise("initial must be in states")
    ELSE IF ~(Len(data.ABC) = 3 /\ Range(data.ABC) \subseteq Range(data.states))
    THEN Raise("ABC must be a 3-item list of states present in 'states'")
    ELSE loaded(data, load_transitions(data.transitions, 1, <<>>, policy_of(data)))

\* ------------------------------------------------------------- api.py
\* The content of /tmp/_spec.json just after open(path, "w"): nothing.
Empty == <<>>

\* json.dumps(payload) and json.load of it: the text of a payload parses back
\* to the payload; the empty text does not parse.
dumps(payload) == <<"json", payload>>
loads(text) == text[2]

\* HTTPException(status_code=400, detail=str(exc))
BadRequest(detail) == [status |-> 400, detail |-> detail]

\* PlanResponse(ok, reason, path, cost=safe_cost) for the PlanResult res.
PlanResponse(res) ==
    [status |-> 200, ok |-> res.ok, reason |-> res.reason, path |-> res.path,
     cost |-> IF res.ok /\ res.cost.fin THEN res.cost ELSE None]

\* api_plan after load_spec returned or raised ls.
respond(ls) ==
    IF ls.raised THEN BadRequest(ls.error)
    ELSE PlanResponse(plan_cycle_ABC(ls.fsm, ls.A, ls.B, ls.C,
                                     ~ls.policy.allow_negative_edges))

\* api_plan from the text that load_spec read at /tmp/_spec.json.
api_plan_from(text) ==
    IF text = Empty THEN BadRequest("Expecting value: line 1 column 1 (char 0)")
    ELSE respond(load_spec(loads(text)))

\* ------------------------------------------------------------- the machine
\* FSM.__init__: no transitions yet.
Init ==
    /\ edges = <<>>
    /\ last = <<>>
    /\ ret = [op |-> "FSM"]
    /\ attributes = <<>>
    /\ file = Empty
    /\ req = [r \in Requests |-> [pc |-> "idle"]]

\* Whether the FSM stores the transition keyed (src, event, dst).
HasKey(es, src, event, dst) ==
    \E i \in 1..Len(es) :
        /\ es[i].src = src /\ es[i].event = event
        /\ DstIndex(es[i].dsts, dst) # 0

\* The effect of fsm.add_transition(src, dst, event, weight) on the FSM, with
\* the history of the last write per key.
Store(src, dst, event, weight) ==
    /\ \/ AddRaises(src, dst)
       \/ HasKey(edges, src, event, dst)
       \/ Len(transitions(edges)) < MaxEdges
    /\ edges' = add_transition(edges, src, dst, event, weight)
    /\ last' = IF AddRaises(src, dst) THEN last
               ELSE [k \in DOMAIN last \cup {<<src, event, dst>>} |->
                        IF k = <<src, event, dst>> THEN weight ELSE last[k]]
    /\ UNCHANGED <<attributes, file, req>>

\* A call fsm.add_transition(src, dst, event, weight) whose outcome the
\* caller observes, with its arguments drawn from L, Ev and W.
AddTransition(L, Ev, W) ==
    \E src \in L, dst \in L, event \in Ev, weight \in W :
        /\ ret.op # "plan_cycle_ABC"
        /\ Store(src, dst, event, weight)
        /\ ret' = [op |-> "add_transition", src |-> src, dst |-> dst,
                   event |-> event, weight |-> weight,
                   raised |-> AddRaises(src, dst)]

\* One call of fsm.add_transition while the FSM is built, its return value
\* dropped, with the key <<src, event, dst>> drawn from Ks.  The build loops
\* of cmd_plan and load_spec call fsm.add_transition(src, dst, weight=w) and
\* leave the event at None; an unregistered endpoint ends them before any
\* planning, so the keys are over the registered states.
BuildEdge(Ks) ==
    \E k \in Ks, weight \in Weights :
        /\ ret.op # "plan_cycle_ABC"
        /\ Store(k[1], k[3], k[2], weight)
        /\ ret' = [op |-> "build"]

\* A call plan_cycle_ABC(fsm, A, B, C, forbid_negative_edges) on the FSM as
\* built, with the waypoints drawn from Ws.  Planning reads the FSM and
\* changes nothing, so one call per behaviour covers every call; all
\* transitions are added before it (the build-then-query lifecycle).
PlanCycle(Ws) ==
    \E abc \in Ws, forbid \in BOOLEAN :
        /\ ret.op # "plan_cycle_ABC"
        /\ ret' = [op |-> "plan_cycle_ABC", A |-> abc[1], B |-> abc[2],
                   C |-> abc[3], forbid |-> forbid,
                   res |-> plan_cycle_ABC(edges, abc[1], abc[2], abc[3], forbid)]
        /\ UNCHANGED <<edges, last, attributes, file, req>>

\* The waypoint triples planned: one per pattern of coincidence among A, B, C
\* (the transitions range over every pair of states, so the other triples are
\* renamings of these), and one per position of an unregistered label.
Waypoints ==
    {<<"A", "B", "C">>, <<"A", "A", "B">>, <<"A", "B", "A">>, <<"A", "B", "B">>,
     <<"A", "A", "A">>,
     <<Unregistered, "B", "C">>, <<"A", Unregistered, "C">>, <<"A", "B", Unregistered>>}

\* The keys the build loops of cmd_plan and load_spec can add: every pair of
\* registered states, self-loops included, under the event None.
Keys == {<<sd[1], None, sd[2]>> : sd \in States \X States}
\* The keys between distinct states.
KeysNoLoop == {k \in Keys : k[1] # k[3]}
\* The same with a second, event-labelled transition between A and B, which
\* makes parallel edges of different weights.
KeysMulti == KeysNoLoop \cup {<<"A", "e", "B">>, <<"B", "e", "A">>}

\* Weights of which the large absorb the small when they are added, and
\* overflow when they are added to each other.
WeightsRounded == {-5000, -1, 1, 5000}

\* One such call with a weight that sums with the others only after rounding.
BuildEdgeRounded(Ks) ==
    \E k \in Ks, weight \in WeightsRounded :
        /\ ret.op \in {"FSM", "build"}
        /\ Store(k[1], k[3], k[2], weight)
        /\ ret' = [op |-> "build"]

\* The edges of E that join two nodes of N.
WithinSeq(E, N) == SelectSeq(E, LAMBDA e : e.u \in N /\ e.v \in N)

\* A call detect_any_negative_cycle(nodes, edges) on the transitions of the
\* FSM as built, over the states of N.
DetectCycle(Ns) ==
    \E N \in Ns :
        /\ ret.op \in {"FSM", "build"}
        /\ ret' = [op |-> "detect_any_negative_cycle", nodes |-> N,
                   res |-> detect_any_negative_cycle(
                               N, WithinSeq(edges_from_fsm(edges), N))]
        /\ UNCHANGED <<edges, last, attributes, file, req>>

\* Every state, a pair of states, a single state.
NodeSets == {States, {"A", "B"}, {"A"}}

\* Build a graph over the registered states, then plan on it.
Next ==
    \/ BuildEdge(Keys)
    \/ PlanCycle(Waypoints)

Spec == Init /\ [][Next]_vars

\* The same on graphs without self-loops.
NextNoLoop ==
    \/ BuildEdge(KeysNoLoop)
    \/ PlanCycle(Waypoints)

SpecNoLoop == Init /\ [][NextNoLoop]_vars

\* The same on multigraphs.
NextMulti ==
    \/ BuildEdge(KeysMulti)
    \/ PlanCycle(Waypoints)

SpecMulti == Init /\ [][NextMulti]_vars

\* The same with weights of very different magnitudes.
NextRounded ==
    \/ BuildEdgeRounded(KeysNoLoop)
    \/ PlanCycle(Waypoints)

SpecRounded == Init /\ [][NextRounded]_vars

\* The negative-cycle detector on its own, on graphs with self-loops and
\* weights of very different magnitudes.
NextDetect ==
    \/ BuildEdgeRounded(Keys)
    \/ DetectCycle(NodeSets)

SpecDetect == Init /\ [][NextDetect]_vars

\* The attributes a transition may carry and the values they take here.
AttrValues ==
    [energy_j |-> {R(1000000000, 1), R(-1, 1)},
     distance_m |-> {R(299792458, 1), R(599584916, 1)},
     velocity_fraction_c |-> {R(-1, 2), R(1, 2), R(1, 1)},
     mass_kg |-> {R(80, 1), R(-1, 1)},
     risk_prob |-> {R(1, 5), R(1, 1)},
     duration_s |-> {R(1, 1), R(10, 1), R(86400, 1)},
     earth_departure_epoch_s |-> {R(10, 1)},
     earth_arrival_epoch_s |-> {R(5, 1), R(12, 1)},
     crew_time_s |-> {R(20, 1)},
     credits |-> {R(100, 1)}]

\* The policies: the default weights, every setting of the three switches
\* and of the mode.
Policies ==
    {[AggregationPolicy EXCEPT !.strict_invariants = s,
                               !.allow_negative_edges = n,
                               !.infer_velocity_from_distance_and_duration = i,
                               !.mode = m] :
        s \in BOOLEAN, n \in BOOLEAN, i \in BOOLEAN, m \in {None, "real_world"}}

\* The attributes dictionary of a transition is written, one key at a time.
SetAttribute ==
    \E k \in DOMAIN AttrValues \ DOMAIN attributes :
        \E v \in AttrValues[k] :
            /\ ret.op \in {"FSM", "attrs"}
            /\ Cardinality(DOMAIN attributes) < MaxAttrs
            /\ attributes' = [j \in DOMAIN attributes \cup {k} |->
                            IF j = k THEN v ELSE attributes[j]]
            /\ ret' = [op |-> "attrs"]
            /\ UNCHANGED <<edges, last, file, req>>

\* A call aggregate_cost_with_breakdown(attrs, policy) on the attributes as
\* written.
Aggregate ==
    \E policy \in Policies :
        /\ ret.op \in {"FSM", "attrs"}
        /\ ret' = [op |-> "aggregate_cost_with_breakdown", policy |-> policy,
                   res |-> aggregate_cost_with_breakdown(attributes, policy)]
        /\ UNCHANGED <<edges, last, attributes, file, req>>

\* The cost aggregator on its own.
NextCost ==
    \/ SetAttribute
    \/ Aggregate

SpecCost == Init /\ [][NextCost]_vars

\* A transition of a specification, with credits as its only attribute: it
\* costs -credits.
Transition(src, dst, credits) ==
    [src |-> src, dst |-> dst,
     attributes |-> [k \in {"credits"} |-> R(credits, 1)]]

\* A JSON specification over the states A, B, C with the transitions ts and
\* the policy pol.
Payload(ts, pol) ==
    [states |-> <<"A", "B", "C">>, initial |-> "A", ABC |-> <<"A", "B", "C">>,
     transitions |-> ts, policy |-> pol]

\* The payloads posted: a triangle of cost 3, one of cost 4, a triangle with
\* a rewarded transition under a policy that floors it, a specification
\* without a way from B to C, and one with a transition to an unknown state.
Payloads ==
    {Payload(<<Transition("A", "B", -1), Transition("B", "C", -1),
               Transition("C", "A", -1)>>, <<>>),
     Payload(<<Transition("A", "B", -2), Transition("B", "C", -1),
               Transition("C", "A", -1)>>, <<>>),
     Payload(<<Transition("A", "B", 2), Transition("B", "C", -1),
               Transition("C", "A", -1)>>,
             [k \in {"allow_negative_edges"} |-> FALSE]),
     Payload(<<Transition("A", "B", -1)>>, <<>>),
     Payload(<<Transition("A", Unregistered, -1)>>, <<>>)}

\* POST /api/plan arrives with its payload; api_plan starts in a thread of
\* the server's pool.
Receive(r) ==
    \E payload \in Payloads :
        /\ req[r].pc = "idle"
        /\ req' = [req EXCEPT ![r] = [pc |-> "received", payload |-> payload]]
        /\ UNCHANGED <<file, edges, last, ret, attributes>>

\* spec_path.write_text: open("/tmp/_spec.json", "w") truncates the file.
OpenForWrite(r) ==
    /\ req[r].pc = "received"
    /\ file' = Empty
    /\ req' = [req EXCEPT ![r].pc = "opened"]
    /\ UNCHANGED <<edges, last, ret, attributes>>

\* spec_path.write_text: the text is written and the file closed.
WriteText(r) ==
    /\ req[r].pc = "opened"
    /\ file' = dumps(req[r].payload)
    /\ req' = [req EXCEPT ![r].pc = "written"]
    /\ UNCHANGED <<edges, last, ret, attributes>>

\* load_spec: open(path, "r") and json.load read the file as it is now.
ReadSpec(r) ==
    /\ req[r].pc = "written"
    /\ req' = [req EXCEPT ![r] = [pc |-> "read", payload |-> req[r].payload,
                                  text |-> file]]
    /\ UNCHANGED <<file, edges, last, ret, attributes>>

\* The rest of api_plan: the FSM is built from what was read, the cycle is
\* planned and the response returned.
Respond(r) ==
    /\ req[r].pc = "read"
    /\ req' = [req EXCEPT ![r] = [pc |-> "done", payload |-> req[r].payload,
                                  response |-> api_plan_from(req[r].text)]]
    /\ UNCHANGED <<file, edges, last, ret, attributes>>

\* Two concurrent POST /api/plan requests.
NextApi ==
    \E r \in Requests :
        \/ Receive(r)
        \/ OpenForWrite(r)
        \/ WriteText(r)
        \/ ReadSpec(r)
        \/ Respond(r)

SpecApi == Init /\ [][NextApi]_vars

\* The FSM container on its own: add_transition with registered and
\* unregistered endpoints and with two events.
LabelsFSM == {"A", "B", Unregistered}
EventsFSM == {None, "e"}
WeightsFSM == {-2, 1}

NextFSM == AddTransition(LabelsFSM, EventsFSM, WeightsFSM)

SpecFSM == Init /\ [][NextFSM]_vars

\* ------------------------------------------------------- reference notions
\* Graph notions the claims are stated with, defined on the set of edges and
\* by enumeration of simple paths, not by relaxation.

\* The set of edges (u, v, w) the FSM stores.
GraphOf(es) ==
    UNION {{[u |-> es[i].src, v |-> es[i].dsts[j].dst, w |-> es[i].dsts[j].w] :
              j \in DOMAIN es[i].dsts} : i \in DOMAIN es}

\* The sequences of distinct states.
SimpleSeqs ==
    {p \in UNION {[1..n -> States] : n \in 1..Cardinality(States)} :
        \A i, j \in DOMAIN p : i # j => p[i] # p[j]}

HasEdge(G, u, v) == \E e \in G : e.u = u /\ e.v = v

\* The cheapest edge weight from u to v.
MinW(G, u, v) ==
    LET ws == {e.w : e \in {x \in G : x.u = u /\ x.v = v}} IN
    CHOOSE w \in ws : \A w2 \in ws : w <= w2

\* Every consecutive pair of p is joined by an edge of G.
IsWalk(G, p) == \A i \in 1..(Len(p) - 1) : HasEdge(G, p[i], p[i + 1])

RECURSIVE WalkWeightFrom(_, _, _)
WalkWeightFrom(G, p, i) ==
    IF i >= Len(p) THEN 0
    ELSE MinW(G, p[i], p[i + 1]) + WalkWeightFrom(G, p, i + 1)

\* The sum over consecutive pairs of the cheapest edge weight between them.
WalkWeight(G, p) == WalkWeightFrom(G, p, 1)

\* p closes into a directed cycle of G.
IsCycle(G, p) == IsWalk(G, p) /\ HasEdge(G, p[Len(p)], p[1])
CycleWeight(G, p) == WalkWeight(G, p) + MinW(G, p[Len(p)], p[1])
NegativeCycles(G) == {p \in SimpleSeqs : IsCycle(G, p) /\ CycleWeight(G, p) < 0}
HasNegativeCycle(G) == NegativeCycles(G) # {}

\* The sequences of distinct states from u to v (<<u>> when u = v).
SimpleSeqsBetween ==
    [u \in States |-> [v \in States |->
        {p \in SimpleSeqs : p[1] = u /\ p[Len(p)] = v}]]

\* The simple paths of G from u to v.
SimplePaths(G, u, v) == {p \in SimpleSeqsBetween[u][v] : IsWalk(G, p)}
Reachable(G, u, v) == \E p \in SimpleSeqsBetween[u][v] : IsWalk(G, p)

\* The minimum total weight over the simple paths from u to v, inf if none.
MinPathWeight(G, u, v) ==
    LET ws == {WalkWeight(G, p) : p \in SimplePaths(G, u, v)} IN
    IF ws = {} THEN Inf ELSE Fin(CHOOSE w \in ws : \A w2 \in ws : w <= w2)

\* The reasons of a failed plan that contain "negative cycle".
NegativeCycleReasons ==
    {"negative cycle exists in graph"} \cup
    {leg \o " planning failed: negative cycle detected" :
        leg \in {"A->B", "B->C", "C->A"}}

Planned == ret.op = "plan_cycle_ABC"
PlannedRegistered == Planned /\ {ret.A, ret.B, ret.C} \subseteq States

\* ------------------------------------------------------------------ claims
\* C1 as stated: on every graph with a directed cycle of negative total
\* weight, for any registered waypoints and either value of
\* forbid_negative_edges, plan_cycle_ABC fails with a reason containing
\* "negative cycle".
C1_AsStated ==
    (PlannedRegistered /\ HasNegativeCycle(GraphOf(edges)))
        => (~ret.res.ok /\ ret.res.reason \in NegativeCycleReasons)

\* C1 amended: with forbid_negative_edges unset, on every graph with a
\* directed cycle of negative total weight and for any registered waypoints,
\* plan_cycle_ABC fails with a reason containing "negative cycle".
C1_NegativeCycleRejected ==
    (PlannedRegistered /\ ~ret.forbid /\ HasNegativeCycle(GraphOf(edges)))
        => (~ret.res.ok /\ ret.res.reason \in NegativeCycleReasons)

\* C1 witness: a plan with the flag unset on a graph whose negative cycles
\* no waypoint lies on or can reach.
C1_Witness ==
    /\ PlannedRegistered /\ ~ret.forbid
    /\ HasNegativeCycle(GraphOf(edges))
    /\ \A p \in NegativeCycles(GraphOf(edges)) :
          \A n \in Range(p), x \in {ret.A, ret.B, ret.C} :
             ~Reachable(GraphOf(edges), x, n)
    /\ ~ret.res.ok

\* The set of edges plan_cycle_ABC plans over in the call ret records.
PlanGraph == Range(planning_edges(edges, ret.forbid))

\* C2: three distinct states A, B, C whose only transitions are A->B=w1,
\* B->C=w2, C->A=w3 with w1+w2+w3 >= 0 (single weights may be negative):
\* plan_cycle_ABC(fsm, A, B, C) with forbid_negative_edges unset returns
\* ok=true, path=[A,B,C,A] and cost=w1+w2+w3.
C2_TriangleScenario(G, A, B, C) ==
    /\ Cardinality({A, B, C}) = 3
    /\ Cardinality(G) = 3
    /\ {<<e.u, e.v>> : e \in G} = {<<A, B>>, <<B, C>>, <<C, A>>}
    /\ MinW(G, A, B) + MinW(G, B, C) + MinW(G, C, A) >= 0

C2_TrianglePlanned ==
    (PlannedRegistered /\ ~ret.forbid
        /\ C2_TriangleScenario(GraphOf(edges), ret.A, ret.B, ret.C))
    => LET G == GraphOf(edges) IN
       /\ ret.res.ok
       /\ ret.res.path = <<ret.A, ret.B, ret.C, ret.A>>
       /\ ret.res.cost =
            Fin(MinW(G, ret.A, ret.B) + MinW(G, ret.B, ret.C) + MinW(G, ret.C, ret.A))

\* C2 witness: the scenario planned with a negative weight among the three.
C2_Witness ==
    /\ PlannedRegistered /\ ~ret.forbid
    /\ C2_TriangleScenario(GraphOf(edges), ret.A, ret.B, ret.C)
    /\ \E e \in GraphOf(edges) : e.w < 0
    /\ ret.res.ok

\* C3: on a planning graph with no negative edge weight, for the source of
\* every leg queried and every node v, the distance bellman_ford computes
\* equals the minimum total weight over the simple paths from the source to
\* v, infinite exactly when there is no path; and the cost _shortest_path
\* returned for the leg is that distance to the leg's target.
C3_BellmanFordIsShortest ==
    PlannedRegistered
    => LET E == planning_edges(edges, ret.forbid)
           G == Range(E)
       IN (\A e \in G : e.w >= 0)
          => \A i \in DOMAIN ret.res.legs :
               LET l == ret.res.legs[i]
                   bf == bellman_ford(States, E, l.src)
               IN /\ ~bf.neg
                  /\ \A v \in States :
                        LET d == MinPathWeight(G, l.src, v) IN
                        /\ bf.dist[v] = d
                        /\ bf.dist[v] = Inf <=> ~Reachable(G, l.src, v)
                        /\ v = l.dst => l.cost = d

\* C3 witness: a leg on a non-negative graph whose shortest path is cheaper
\* than the direct edge, with another node out of reach of its source.
C3_Witness ==
    /\ PlannedRegistered /\ \A e \in PlanGraph : e.w >= 0
    /\ \E i \in DOMAIN ret.res.legs :
          LET l == ret.res.legs[i] IN
          /\ HasEdge(PlanGraph, l.src, l.dst)
          /\ l.cost.fin /\ l.cost.val < MinW(PlanGraph, l.src, l.dst)
    /\ \E i \in DOMAIN ret.res.legs, v \in States :
          ~Reachable(PlanGraph, ret.res.legs[i].src, v)

\* C4: whenever plan_cycle_ABC returns ok=true, the path starts and ends at
\* A, B occurs in it and C at or after that occurrence, every consecutive
\* pair is joined by an edge of the planning edge set, the cheapest edge
\* weights along it sum to the returned cost, and the legs are joined without
\* repeating the node they share.
C4_PathWitnessesCost ==
    (Planned /\ ret.res.ok)
    => LET path == ret.res.path
           legs == ret.res.legs
       IN /\ path # <<>>
          /\ path[1] = ret.A /\ path[Len(path)] = ret.A
          /\ \E i, j \in DOMAIN path : i <= j /\ path[i] = ret.B /\ path[j] = ret.C
          /\ IsWalk(PlanGraph, path)
          /\ ret.res.cost = Fin(WalkWeight(PlanGraph, path))
          /\ Len(path) = Len(legs[1].path) + Len(legs[2].path) + Len(legs[3].path) - 2

\* C4 witness: a successful plan whose waypoints are not all the same and
\* whose path crosses a pair of states joined by two edges, of which the one
\* stored first is the dearer.
C4_Witness ==
    /\ Planned /\ ret.res.ok
    /\ Cardinality({ret.A, ret.B, ret.C}) > 1
    /\ LET E == planning_edges(edges, ret.forbid) IN
       \E i \in 1..(Len(ret.res.path) - 1) :
          \E m, n \in DOMAIN E :
             /\ m < n /\ E[m].w > E[n].w
             /\ E[m].u = ret.res.path[i] /\ E[n].u = ret.res.path[i]
             /\ E[m].v = ret.res.path[i + 1] /\ E[n].v = ret.res.path[i + 1]

\* C5: when plan_cycle_ABC succeeds, the returned cost is the sum of the
\* costs of the three shortest-path queries A->B, B->C, C->A run on their own
\* over the same edge set, each the minimum path weight of its leg.
C5_CostIsSumOfLegs ==
    (Planned /\ ret.res.ok)
    => LET E == planning_edges(edges, ret.forbid)
           ab == shortest_path(States, E, ret.A, ret.B).cost
           bc == shortest_path(States, E, ret.B, ret.C).cost
           ca == shortest_path(States, E, ret.C, ret.A).cost
       IN /\ ab.fin /\ bc.fin /\ ca.fin
          /\ ret.res.cost = Fin(ab.val + bc.val + ca.val)
          /\ ab = MinPathWeight(PlanGraph, ret.A, ret.B)
          /\ bc = MinPathWeight(PlanGraph, ret.B, ret.C)
          /\ ca = MinPathWeight(PlanGraph, ret.C, ret.A)

\* C5 witness: a successful plan whose three leg costs are all non-zero.
C5_Witness ==
    /\ Planned /\ ret.res.ok
    /\ \A i \in DOMAIN ret.res.legs : ret.res.legs[i].cost.val # 0
    /\ \E i \in DOMAIN ret.res.legs : ret.res.legs[i].cost.val < 0

\* The legs in the order plan_cycle_ABC is to try them.
LegOrder(A, B, C) ==
    <<[leg |-> "A->B", src |-> A, dst |-> B],
      [leg |-> "B->C", src |-> B, dst |-> C],
      [leg |-> "C->A", src |-> C, dst |-> A]>>

\* The legs that have no path in G.
LegsWithoutPath(G, A, B, C) ==
    LET order == LegOrder(A, B, C) IN
    {i \in 1..3 : ~Reachable(G, order[i].src, order[i].dst)}

\* C6: once the waypoint and negative-cycle checks pass, the legs are tried
\* in the order A->B, B->C, C->A; the earliest leg that has no path ends the
\* call with ok=false, an empty path and the reason "<leg> planning failed:
\* unreachable", no later leg being tried; ok=true is returned only when all
\* three legs were tried and have a path.
C6_FirstFailingLeg ==
    PlannedRegistered
    => LET G == PlanGraph
           order == LegOrder(ret.A, ret.B, ret.C)
           bad == LegsWithoutPath(G, ret.A, ret.B, ret.C)
           legs == ret.res.legs
       IN ~HasNegativeCycle(G)
          => /\ \A i \in DOMAIN legs :
                   /\ i <= 3
                   /\ legs[i].leg = order[i].leg
                   /\ legs[i].src = order[i].src /\ legs[i].dst = order[i].dst
             /\ ret.res.ok <=> (bad = {})
             /\ ret.res.ok => Len(legs) = 3 /\ \A i \in 1..3 : legs[i].path # <<>>
             /\ bad # {} =>
                   LET k == CHOOSE i \in bad : \A j \in bad : i <= j IN
                   /\ Len(legs) = k
                   /\ \A i \in 1..(k - 1) : legs[i].path # <<>>
                   /\ legs[k].path = <<>> /\ legs[k].reason = "unreachable"
                   /\ ret.res.reason = order[k].leg \o " planning failed: unreachable"
                   /\ ret.res.path = <<>> /\ ret.res.cost = Inf

\* C6 witness: the call ended at B->C although C->A has no path either.
C6_Witness ==
    /\ PlannedRegistered /\ ~HasNegativeCycle(PlanGraph)
    /\ LegsWithoutPath(PlanGraph, ret.A, ret.B, ret.C) = {2, 3}
    /\ Len(ret.res.legs) = 2
    /\ ret.res.reason = "B->C planning failed: unreachable"

\* C7: if any of A, B, C is not a registered state, plan_cycle_ABC returns
\* ok=false, an empty path and the reason "A/B/C not in FSM states" without
\* running the negative-cycle check or any leg, whatever the edges.
C7_UnregisteredWaypoint ==
    (Planned /\ ~({ret.A, ret.B, ret.C} \subseteq States))
    => /\ ~ret.res.ok
       /\ ret.res.path = <<>>
       /\ ret.res.cost = Inf
       /\ ret.res.reason = "A/B/C not in FSM states"
       /\ ~ret.res.checked
       /\ ret.res.legs = <<>>

\* C7 witness: only C is unregistered, on a graph that holds a negative cycle
\* and a path from A to B.
C7_Witness ==
    /\ Planned /\ ret.C \notin States /\ {ret.A, ret.B} \subseteq States
    /\ HasNegativeCycle(GraphOf(edges))
    /\ Reachable(GraphOf(edges), ret.A, ret.B)
    /\ ~ret.res.ok

\* The FSM with every transition of weight < 0 removed.
NotNegativeDst(d) == d.w >= 0
WithoutNegative(es) == [i \in DOMAIN es |-> [es[i] EXCEPT !.dsts = SelectSeq(@, NotNegativeDst)]]

\* C8: with forbid_negative_edges set, plan_cycle_ABC returns what it returns
\* with the flag unset on the FSM without its transitions of weight < 0
\* (weight 0 kept): a successful plan walks only edges of weight >= 0, its
\* cost is >= 0, and no failure has a negative-cycle reason.
C8_ForbidIsFiltering ==
    (PlannedRegistered /\ ret.forbid)
    => /\ ret.res = plan_cycle_ABC(WithoutNegative(edges), ret.A, ret.B, ret.C, FALSE)
       /\ ret.res.reason \notin NegativeCycleReasons
       /\ ret.res.ok =>
             /\ ret.res.cost.fin /\ ret.res.cost.val >= 0
             /\ IsWalk({e \in GraphOf(edges) : e.w >= 0}, ret.res.path)

\* C8 witness: a successful plan with the flag set on a graph that holds a
\* negative edge, along a zero-weight edge.
C8_Witness ==
    /\ PlannedRegistered /\ ret.forbid /\ ret.res.ok
    /\ \E e \in GraphOf(edges) : e.w < 0
    /\ \E i \in 1..(Len(ret.res.path) - 1) :
          MinW(PlanGraph, ret.res.path[i], ret.res.path[i + 1]) = 0

\* C9: add_transition raises whenever src or dst is not in the state set, and
\* a call that raises leaves every bucket as it was, creating none; so after
\* any sequence of calls every stored edge has its source and destination in
\* the state set and no bucket is empty.
C9_RaisesIffUnregistered ==
    ret.op = "add_transition"
    => (ret.raised <=> (ret.src \notin States \/ ret.dst \notin States))

C9_EdgesWithinStates ==
    \A i \in DOMAIN edges :
        /\ edges[i].src \in States
        /\ edges[i].dsts # <<>>
        /\ \A j \in DOMAIN edges[i].dsts : edges[i].dsts[j].dst \in States

C9_RaiseLeavesEdges ==
    (ret'.op = "add_transition" /\ ret'.raised) => edges' = edges

C9_UnknownEndpointRejected ==
    /\ [](C9_RaisesIffUnregistered /\ C9_EdgesWithinStates)
    /\ [][C9_RaiseLeavesEdges]_vars

\* C9 witness: a call with a registered source and an unregistered
\* destination raised on an FSM that already stores transitions.
C9_Witness ==
    /\ ret.op = "add_transition" /\ ret.raised
    /\ ret.src \in States /\ ret.dst \notin States
    /\ Len(edges) >= 2
    /\ BucketIndex(edges, ret.src, ret.event) = 0

\* C10: the transitions the FSM enumerates are exactly the keys (source,
\* event, destination) ever added, each once and with the weight of the most
\* recent call for it (never a sum or a minimum); keys that differ only in
\* the destination, or only in the event, are stored side by side, and a
\* call changes the weight of no key but its own.
C10_LastWriteWins ==
    LET ts == transitions(edges) IN
    /\ Len(ts) = Cardinality(DOMAIN last)
    /\ \A i \in DOMAIN ts :
          LET k == <<ts[i].src, ts[i].event, ts[i].dst>> IN
          /\ k \in DOMAIN last
          /\ ts[i].weight = last[k]

\* C10 witness: the last call overwrote, with another weight than its
\* neighbour's, the first of two destinations of one bucket, and the same
\* source holds a transition under the other event.
C10_Witness ==
    /\ ret.op = "add_transition" /\ ~ret.raised
    /\ LET i == BucketIndex(edges, ret.src, ret.event) IN
       /\ i # 0
       /\ Len(edges[i].dsts) = 2
       /\ edges[i].dsts[1].dst = ret.dst
       /\ edges[i].dsts[1].w = ret.weight
       /\ edges[i].dsts[2].w # ret.weight
    /\ \E i \in DOMAIN edges : edges[i].src = ret.src /\ edges[i].event # ret.event

\* The edges of the set G that join two nodes of N.
WithinSet(G, N) == {e \in G : e.u \in N /\ e.v \in N}
Built == ret.op = "build"
Detected == ret.op = "detect_any_negative_cycle"

\* Every weight of G is small enough for all the sums formed to be exact.
ExactSums(G) == \A e \in G : -100 < e.w /\ e.w < 100

\* C14 as stated: detect_any_negative_cycle(nodes, edges) returns true if and
\* only if the graph on nodes has a directed cycle of negative total weight,
\* a self-loop and a graph of a single node included, wherever the cycle
\* lies.
C14_AsStated ==
    Detected =>
        (ret.res <=> HasNegativeCycle(WithinSet(GraphOf(edges), ret.nodes)))

\* C14 amended: on a graph whose weights sum without rounding,
\* detect_any_negative_cycle(nodes, edges) returns true if and only if the
\* graph on nodes has a directed cycle of negative total weight, a self-loop
\* and a graph of a single node included, wherever the cycle lies.
C14_DetectsExactlyNegativeCycles ==
    (Detected /\ ExactSums(GraphOf(edges))) =>
        (ret.res <=> HasNegativeCycle(WithinSet(GraphOf(edges), ret.nodes)))

\* C14 witness: on a graph of exact sums, a negative cycle of two edges that
\* the state A cannot reach is detected.
C14_Witness ==
    /\ Detected /\ ExactSums(GraphOf(edges)) /\ ret.nodes = States /\ ret.res
    /\ \A p \in NegativeCycles(GraphOf(edges)) :
          Len(p) = 2 /\ \A m \in Range(p) : ~Reachable(GraphOf(edges), "A", m)

\* The relaxation loop of bellman_ford without its early exit: every one of
\* the k passes is run.
RECURSIVE RelaxLoopFull(_, _, _)
RelaxLoopFull(E, k, st) ==
    IF k <= 0 THEN st
    ELSE RelaxLoopFull(E, k - 1, RelaxPass(E, 1, [st EXCEPT !.changed = FALSE]))

\* bellman_ford with the full |nodes|-1 passes.
bellman_ford_full(nodes, E, source) ==
    LET st0 == [dist |-> [n \in nodes |-> IF n = source THEN Fin(0) ELSE Inf],
                pred |-> [n \in nodes |-> None],
                changed |-> FALSE]
        st == RelaxLoopFull(E, Cardinality(nodes) - 1, st0)
    IN [dist |-> st.dist, pred |-> st.pred, neg |-> StillRelaxes(E, st.dist)]

\* The states of the FSM, and the same with a fourth state that has no
\* transition, which makes |nodes|-1 three passes.
NodeLists == {States, States \cup {"D"}}

\* C15: for every graph and source, bellman_ford returns the distances and
\* the negative-cycle flag of the same algorithm run for the full |nodes|-1
\* passes without the early exit.
C15_EarlyExitIsOptimization ==
    Built =>
        \A nodes \in NodeLists : \A source \in States :
            LET E == edges_from_fsm(edges)
                a == bellman_ford(nodes, E, source)
                b == bellman_ford_full(nodes, E, source)
            IN a.dist = b.dist /\ a.neg = b.neg

\* C15 witness: a graph and a source for which the first pass lowers a
\* distance and the second lowers none, so that the third pass is skipped;
\* and another source for which the second pass still lowers one, the graph
\* being free of negative cycles.
C15_Witness ==
    /\ Built /\ ~HasNegativeCycle(GraphOf(edges))
    /\ LET E == edges_from_fsm(edges)
           nodes == States \cup {"D"}
           st0(source) ==
               [dist |-> [n \in nodes |-> IF n = source THEN Fin(0) ELSE Inf],
                pred |-> [n \in nodes |-> None], changed |-> FALSE]
           p1(source) == RelaxPass(E, 1, st0(source))
           p2(source) == RelaxPass(E, 1, [p1(source) EXCEPT !.changed = FALSE])
       IN /\ \E source \in States : p1(source).changed /\ ~p2(source).changed
          /\ \E source \in States : p1(source).changed /\ p2(source).changed

\* The transitions the FSM holds, as a set.
TransitionSet(es) == Range(transitions(es))

\* The FSM built by adding the transitions of ts one after the other.
RECURSIVE BuiltFrom(_, _)
BuiltFrom(ts, i) ==
    IF i = 0 THEN <<>>
    ELSE add_transition(BuiltFrom(ts, i - 1),
                        ts[i].src, ts[i].dst, ts[i].event, ts[i].weight)

\* The FSM built from the same transitions added in one fixed order, which
\* depends on the set of transitions only.
InFixedOrder(es) ==
    LET ts == SetToSeq(TransitionSet(es)) IN BuiltFrom(ts, Len(ts))

\* The call ret records, made on the FSM es instead.
PlanOn(es) == plan_cycle_ABC(es, ret.A, ret.B, ret.C, ret.forbid)
SameOutcome(r1, r2) ==
    r1.ok = r2.ok /\ r1.reason = r2.reason /\ r1.cost = r2.cost

\* C16 as stated: two FSMs built from the same transitions with pairwise
\* distinct (source, event, destination) keys, added in different orders,
\* plan to the same ok flag, reason and total cost for the same A, B, C and
\* flag.  Every order of every set of transitions is built, so it is enough
\* that each plans as the one built in the fixed order does.
C16_AsStated ==
    Planned => SameOutcome(PlanOn(InFixedOrder(edges)), ret.res)

\* C16 amended: the same for transitions whose weights sum without rounding.
C16_OrderIndependent ==
    (Planned /\ ExactSums(GraphOf(edges)))
        => SameOutcome(PlanOn(InFixedOrder(edges)), ret.res)

\* C16 witness: a successful plan through three distinct waypoints on an FSM
\* of exact sums whose transitions were not added in the fixed order.
C16_Witness ==
    /\ Planned /\ ret.res.ok /\ ExactSums(GraphOf(edges))
    /\ Cardinality({ret.A, ret.B, ret.C}) = 3
    /\ transitions(InFixedOrder(edges)) # transitions(edges)

\* The negative-cycle pre-check of the call ret records ran and passed.
PreCheckPassed ==
    /\ PlannedRegistered /\ ret.res.checked
    /\ ret.res.reason # "negative cycle exists in graph"

\* Every leg queried either failed as unreachable or has a path from its
\* source to its target that visits no node twice.
LegsUnreachableOrWalked ==
    \A i \in DOMAIN ret.res.legs :
        LET l == ret.res.legs[i] IN
        \/ l.reason = "unreachable" /\ l.path = <<>>
        \/ /\ l.reason = ""
           /\ l.path # <<>>
           /\ l.path[1] = l.src /\ l.path[Len(l.path)] = l.dst
           /\ \A j, k \in DOMAIN l.path : j # k => l.path[j] # l.path[k]

\* C17 as stated: once the negative-cycle pre-check of plan_cycle_ABC has
\* passed, a leg fails with "unreachable" only, never with "negative cycle
\* detected", "path reconstruction cycle detected" or "path reconstruction
\* failed": the predecessor walk reaches the source without revisiting a
\* node.
C17_AsStated == PreCheckPassed => LegsUnreachableOrWalked

\* C17 amended: the same for transitions whose weights sum without rounding.
C17_OnlyUnreachable ==
    (PreCheckPassed /\ ExactSums(GraphOf(edges))) => LegsUnreachableOrWalked

\* C17 witness: on a graph of exact sums with a cycle of weight zero, a plan
\* that passes the pre-check and queries a leg from a state to itself and a
\* leg along the cycle.
C17_Witness ==
    /\ PreCheckPassed /\ ExactSums(GraphOf(edges)) /\ ret.res.ok
    /\ \E p \in SimpleSeqs :
          /\ Len(p) > 1 /\ IsCycle(GraphOf(edges), p)
          /\ CycleWeight(GraphOf(edges), p) = 0
          /\ \E i \in DOMAIN ret.res.legs :
                ret.res.legs[i].src = p[1] /\ ret.res.legs[i].dst = p[2]
    /\ \E i \in DOMAIN ret.res.legs : ret.res.legs[i].src = ret.res.legs[i].dst

\* C18 as stated: every PlanResult of plan_cycle_ABC has ok=true if and only
\* if its path is non-empty, if and only if its cost is finite, if and only
\* if its reason is "ok"; every failure has path=[] and cost=+infinity.
C18_AsStated ==
    Planned =>
        /\ ret.res.ok <=> ret.res.path # <<>>
        /\ ret.res.ok <=> ret.res.cost.fin
        /\ ret.res.ok <=> ret.res.reason = "ok"
        /\ ~ret.res.ok => (ret.res.path = <<>> /\ ret.res.cost = Inf)

\* C18 amended: ok=true if and only if the path is non-empty, if and only if
\* the reason is "ok"; every failure has path=[] and cost=+infinity; the cost
\* of a success is finite when the weights sum without rounding or overflow.
C18_ResultConsistent ==
    Planned =>
        /\ ret.res.ok <=> ret.res.path # <<>>
        /\ ret.res.ok <=> ret.res.reason = "ok"
        /\ ~ret.res.ok => (ret.res.path = <<>> /\ ret.res.cost = Inf)
        /\ (ret.res.ok /\ ExactSums(GraphOf(edges))) => ret.res.cost.fin

\* C18 witness: a plan that fails at its second or third leg, after a leg
\* with a path and a finite cost.
C18_Witness ==
    /\ Planned /\ ~ret.res.ok
    /\ Len(ret.res.legs) > 1
    /\ ret.res.legs[1].path # <<>> /\ ret.res.legs[1].cost.fin

\* A call of the aggregator has returned or raised.
Aggregated == ret.op = "aggregate_cost_with_breakdown"

\* The duration of the attributes a: duration_s, else the time between the
\* two epochs (never negative), else 0.
DurationOf(a) ==
    IF "duration_s" \in DOMAIN a THEN a["duration_s"]
    ELSE IF {"earth_departure_epoch_s", "earth_arrival_epoch_s"} \subseteq DOMAIN a
    THEN LET d == RSub(a["earth_arrival_epoch_s"], a["earth_departure_epoch_s"])
         IN IF RSign(d) < 0 THEN Zero ELSE d
    ELSE Zero

\* The distance of the attributes a.
DistanceOf(a) == IF "distance_m" \in DOMAIN a THEN a["distance_m"] ELSE Zero

\* Whether the velocity fraction of a under the policy p is inferred.
VelocityInferred(a, p) ==
    /\ "velocity_fraction_c" \notin DOMAIN a
    /\ p.infer_velocity_from_distance_and_duration
    /\ RSign(DistanceOf(a)) > 0 /\ RSign(DurationOf(a)) > 0

\* The resolved velocity fraction: the explicit one, else the inferred one,
\* distance / duration / c capped at 0.999999, else 0.
ResolvedVelocity(a, p) ==
    IF "velocity_fraction_c" \in DOMAIN a THEN a["velocity_fraction_c"]
    ELSE IF VelocityInferred(a, p)
    THEN LET b == RDiv(DistanceOf(a), RMul(DurationOf(a), C_M_PER_S))
         IN IF RLess(R(999999, 1000000), b) THEN R(999999, 1000000) ELSE b
    ELSE Zero

\* C11: with strict_invariants enabled, the aggregator raises for every
\* attribute map whose resolved velocity fraction, explicit or inferred, is
\* below 0 or at least 1.
C11_StrictRejectsVelocityOutOfRange ==
    (/\ Aggregated /\ ret.policy.strict_invariants
     /\ LET b == ResolvedVelocity(attributes, ret.policy)
        IN RSign(b) < 0 \/ ~RLess(b, One))
        => ret.res.raised

\* C11 witness: a strict aggregation of a negative velocity fraction that
\* passes the checks before the velocity is resolved and raises
\* "velocity_fraction_c must be in [0,1)".
C11_Witness ==
    /\ Aggregated /\ ret.policy.strict_invariants
    /\ "velocity_fraction_c" \in DOMAIN attributes
    /\ RSign(attributes["velocity_fraction_c"]) < 0
    /\ ret.res.raised
    /\ ret.res.error = "velocity_fraction_c must be in [0,1)"

\* An aggregation that returned a cost and a breakdown.
Returned == Aggregated /\ ~ret.res.raised

\* The raw cost of a breakdown b under the policy p: the weighted energy,
\* time and risk terms less the credits, from the quantities and the
\* effective weights the breakdown reports.
RawCost(b, p) ==
    RSub(RAdd(RAdd(RAdd(RMul(p.energy_weight,
                             RDiv(b.energy_j,
                                  IF RLess(p.energy_scale, One) THEN One
                                  ELSE p.energy_scale)),
                        RMul(b.effective_weights.earth_time, b.duration_s)),
                   RMul(b.effective_weights.crew_time, b.crew_time_s)),
              RMul(b.effective_weights.risk, b.risk_penalty)),
         b.credits)

\* The policy p with allow_negative_edges switched.
OtherSetting(p) == [p EXCEPT !.allow_negative_edges = ~@]

\* C12: the scalar returned is the raw cost when allow_negative_edges is
\* true and max(0, raw cost), so never negative, when it is false; the
\* breakdown's terms are the same under both settings.
C12_CostIsRawOrFloored ==
    Returned =>
        LET raw == RawCost(ret.res, ret.policy)
            other == aggregate_cost_with_breakdown(attributes,
                                                   OtherSetting(ret.policy))
        IN /\ ret.policy.allow_negative_edges => REq(ret.res.cost, raw)
           /\ ~ret.policy.allow_negative_edges =>
                 /\ RSign(ret.res.cost) >= 0
                 /\ REq(ret.res.cost, IF RSign(raw) < 0 THEN Zero ELSE raw)
           /\ ~other.raised
           /\ other.terms = ret.res.terms

\* C12 witness: energy 1e9 J, duration 10 s, no risk and credits 100 under
\* the default policy cost 1 + 1 + 2 - 100 = -96.
C12_Witness ==
    /\ Returned /\ ret.policy = AggregationPolicy
    /\ DOMAIN attributes = {"energy_j", "duration_s", "credits"}
    /\ REq(attributes["energy_j"], R(1000000000, 1))
    /\ REq(attributes["duration_s"], R(10, 1))
    /\ REq(attributes["credits"], R(100, 1))
    /\ REq(ret.res.cost, R(-96, 1))

\* Whether distance (> 0) and duration (> 0) of the attributes a violate the
\* kinematic lower bound duration >= distance / (b * c) for the velocity
\* fraction b > 0 by more than 1e-9 s.
ViolatesKinematicBound(a, b) ==
    /\ RSign(DistanceOf(a)) > 0 /\ RSign(DurationOf(a)) > 0 /\ RSign(b) > 0
    /\ RLess(RAdd(DurationOf(a), R(1, 1000000000)),
             RDiv(DistanceOf(a), RMul(b, C_M_PER_S)))

\* The breakdown returned carries the kinematic warning.
WarnsKinematic ==
    \E i \in DOMAIN ret.res.warnings :
        ret.res.warnings[i] = "duration below kinematic bound distance/velocity"

\* C13 as stated: with strict_invariants enabled, the aggregator fails for
\* every input whose distance and duration violate the kinematic lower bound
\* for the velocity the aggregation uses, explicit or inferred; so a strict
\* aggregation that returns never carries the warning "duration below
\* kinematic bound distance/velocity".
C13_AsStated ==
    (Aggregated /\ ret.policy.strict_invariants) =>
        /\ ViolatesKinematicBound(attributes,
                                  ResolvedVelocity(attributes, ret.policy))
              => ret.res.raised
        /\ ~ret.res.raised => ~WarnsKinematic

\* C13 amended: with strict_invariants enabled, the aggregator fails for
\* every input whose distance and duration violate the kinematic lower bound
\* for an explicit velocity_fraction_c; a strict aggregation that returns
\* carries the warning only when the velocity was inferred.
C13_StrictKinematicExplicit ==
    (Aggregated /\ ret.policy.strict_invariants) =>
        /\ ("velocity_fraction_c" \in DOMAIN attributes
            /\ ViolatesKinematicBound(attributes,
                                      attributes["velocity_fraction_c"]))
              => ret.res.raised
        /\ (~ret.res.raised /\ WarnsKinematic)
              => VelocityInferred(attributes, ret.policy)

\* C13 witness: a strict aggregation of one light-second travelled in 1 s at
\* an explicit half of the speed of light raises "duration_s violates
\* kinematic lower bound distance/velocity".
C13_Witness ==
    /\ Aggregated /\ ret.policy.strict_invariants
    /\ "velocity_fraction_c" \in DOMAIN attributes
    /\ ViolatesKinematicBound(attributes, attributes["velocity_fraction_c"])
    /\ ret.res.raised
    /\ ret.res.error = "duration_s violates kinematic lower bound distance/velocity"

\* C19: under any interleaving of two concurrent POST /api/plan requests,
\* each response is the plan computed from that request's own payload: the
\* write of the other request never affects what a request loads back.
C19_OwnPayload ==
    \A r \in Requests :
        req[r].pc = "done" =>
            req[r].response = api_plan_from(dumps(req[r].payload))

\* C19 witness: both requests answered, each with the plan of its own
\* payload, the two plans different.
C19_Witness ==
    /\ \A r \in Requests :
          /\ req[r].pc = "done"
          /\ req[r].response = api_plan_from(dumps(req[r].payload))
    /\ req["r1"].response # req["r2"].response

====
